---- MODULE Spec2Model ----
(***************************************************************************)
(* Model of the genealogy search core of bhs_api/fsearch.py: the query     *)
(* compiler build_query, the executor fsearch and the sanitizer            *)
(* clean_person.  Python strings are TLA+ strings, Python dicts are        *)
(* functions whose domain is a finite set of strings.                      *)
(***************************************************************************)
EXTENDS Integers, Sequences, FiniteSets, TLC

VARIABLES
    search_dict,        \* build_query: the parameter mapping it is called with
    names_and_places,   \* build_query: local dict, name/place bucket
    years,              \* build_query: local dict, year bucket
    sex,                \* build_query: local, <<>> is None
    individual_id,      \* build_query: local, <<>> is None
    only_deceased,      \* build_query: local flag
    search_query,       \* build_query: the filter being assembled
    pc,                 \* build_query: position in the function body
    outcome,            \* build_query: "none", "filter", "InvalidArgument", "KeyError"
    args,               \* fsearch: the max_results and max_count_results it is called with
    kwargs,             \* fsearch: the query arguments, key -> list of values
    max_results,        \* fsearch: local, the limit once parsed
    max_count_results,  \* fsearch: local, the count cap once parsed
    matching,           \* persons collection: number of records find(search_query) yields
    total,              \* fsearch: the count it returns
    results,            \* fsearch: the page it returns
    fpc,                \* fsearch: position in the function body, then how it ended
    record,             \* clean_person: the record it is called with
    person,             \* clean_person: the record being cleaned
    cpc                 \* clean_person: position in the function body

qvars == <<search_dict, names_and_places, years, sex, individual_id,
           only_deceased, search_query, pc, outcome>>
fvars == <<args, kwargs, max_results, max_count_results, matching, total, results, fpc>>
cvars == <<record, person, cpc>>
vars == <<search_dict, names_and_places, years, sex, individual_id,
          only_deceased, search_query, pc, outcome,
          args, kwargs, max_results, max_count_results, matching, total, results, fpc,
          record, person, cpc>>

----------------------------------------------------------------------------
(* Bounds of the model *)

\* largest number of parameters in one search_dict
MaxParams == 2

----------------------------------------------------------------------------
(* Python str and dict primitives *)

Char(s, i) == SubSeq(s, i, i)

\* str.endswith
EndsWith(s, suf) ==
    /\ Len(s) >= Len(suf)
    /\ SubSeq(s, Len(s) - Len(suf) + 1, Len(s)) = suf

\* str.find, 1-based, 0 when absent
RECURSIVE FindFrom(_, _, _)
FindFrom(s, sub, i) ==
    IF i + Len(sub) - 1 > Len(s) THEN 0
    ELSE IF SubSeq(s, i, i + Len(sub) - 1) = sub THEN i
    ELSE FindFrom(s, sub, i + 1)

Find(s, sub) == FindFrom(s, sub, 1)

\* the `in` operator on strings
Contains(s, sub) == Find(s, sub) # 0

\* str.split(sep)
RECURSIVE Split(_, _)
Split(s, sep) ==
    LET i == Find(s, sep)
    IN  IF i = 0 THEN <<s>>
        ELSE <<SubSeq(s, 1, i - 1)>> \o Split(SubSeq(s, i + Len(sep), Len(s)), sep)

UpperCase == "ABCDEFGHIJKLMNOPQRSTUVWXYZ"
LowerCase == "abcdefghijklmnopqrstuvwxyz"

\* the case mappings of the ASCII letters
ToLower == [c \in {Char(UpperCase, i) : i \in 1..26} |-> Char(LowerCase, Find(UpperCase, c))]
ToUpper == [c \in {Char(LowerCase, i) : i \in 1..26} |-> Char(UpperCase, Find(LowerCase, c))]

RECURSIVE MapStr(_, _)
MapStr(s, map) ==
    IF s = "" THEN ""
    ELSE (IF Head(s) \in DOMAIN map THEN map[Head(s)] ELSE Head(s)) \o MapStr(Tail(s), map)

\* str.lower, str.upper
Lower(s) == MapStr(s, ToLower)
Upper(s) == MapStr(s, ToUpper)

Digits == "0123456789"

RECURSIVE LStrip(_)
LStrip(s) == IF s # "" /\ Head(s) = " " THEN LStrip(Tail(s)) ELSE s
RECURSIVE RStrip(_)
RStrip(s) ==
    IF s # "" /\ Char(s, Len(s)) = " " THEN RStrip(SubSeq(s, 1, Len(s) - 1)) ELSE s

\* the digits of an int() literal, its sign removed
IntBody(s) ==
    LET t == RStrip(LStrip(s))
    IN  IF t # "" /\ Head(t) \in {"+", "-"} THEN Tail(t) ELSE t

\* int(s) does not raise ValueError
ParsesAsInt(s) ==
    /\ IntBody(s) # ""
    /\ \A i \in 1..Len(IntBody(s)) : Contains(Digits, Char(IntBody(s), i))

RECURSIVE DigitsValue(_)
DigitsValue(b) ==
    IF b = "" THEN 0
    ELSE 10 * DigitsValue(SubSeq(b, 1, Len(b) - 1)) + (Find(Digits, Char(b, Len(b))) - 1)

\* int(s), for s with ParsesAsInt(s)
int(s) ==
    LET t == RStrip(LStrip(s))
    IN  IF Head(t) = "-" THEN 0 - DigitsValue(IntBody(s)) ELSE DigitsValue(IntBody(s))

\* d[k] = v
Put(d, k, v) == [x \in (DOMAIN d) \cup {k} |-> IF x = k THEN v ELSE d[x]]

\* the orders in which a dict with key set S may be iterated
Orders(S) ==
    {o \in [1..Cardinality(S) -> S] : \A i, j \in 1..Cardinality(S) : o[i] = o[j] => i = j}

\* Python values as they appear in a filter
Str(s) == [type |-> "str", v |-> s]
Regex(p) == [type |-> "regex", v |-> p]
Soundex(s) == [type |-> "soundex", v |-> s]
IntV(n) == [type |-> "int", v |-> n]
BoolV(b) == [type |-> "bool", v |-> b]
Exists(b) == [type |-> "exists", v |-> b]
Range(lo, hi) == [type |-> "range", v |-> [gte |-> lo, lte |-> hi]]
Or(clauses) == [type |-> "or", v |-> clauses]

None == <<>>
\* Python truthiness of an optional string
Truthy(opt) == opt # None /\ opt[1] # ""

----------------------------------------------------------------------------
(* build_query *)

\* mutant of ARGS_TO_INDEX: last_name is given the index field of first_name
ARGS_TO_INDEX_SharedNameField ==
    [first_name     |-> "name_lc.0",
     last_name      |-> "name_lc.0",
     sex            |-> "sex",
     birth_place    |-> "BIRT_PLAC_lc",
     marriage_place |-> "MARR_PLAC_lc",
     tree_number    |-> "tree_num",
     death_place    |-> "DEAT_PLAC_lc",
     place          |-> "filler_lc"]

ARGS_TO_INDEX ==
    [first_name     |-> "name_lc.0",
     last_name      |-> "name_lc.1",
     sex            |-> "sex",
     birth_place    |-> "BIRT_PLAC_lc",
     marriage_place |-> "MARR_PLAC_lc",
     tree_number    |-> "tree_num",
     death_place    |-> "DEAT_PLAC_lc",
     place          |-> "filler_lc"]

\* phonetic.get_bhp_soundex: the code of a string, an opaque value
get_bhp_soundex(s) == Soundex(s)

\* str(n) for an integer n
RECURSIVE NatStr(_)
NatStr(n) == IF n < 10 THEN Char(Digits, n + 1) ELSE NatStr(n \div 10) \o Char(Digits, (n % 10) + 1)
str(n) == IF n < 0 THEN "-" \o NatStr(0 - n) ELSE NatStr(n)

generate_year_range(year, fudge_factor) ==
    [min |-> int(str(year - fudge_factor)), max |-> int(str(year + fudge_factor))]

\* mutant of ForcesDeceased: the "_year" test is forgotten
ForcesDeceasedPlaceOnly(k) == EndsWith(k, "place")

\* line 51: the key makes the search a search of the deceased only
ForcesDeceased(k) == EndsWith(k, "place") \/ Contains(k, "_year")

\* lines 51-62: one iteration of the classification loop on the locals c
ClassifyItem(c, k, v) ==
    LET c1 == IF ForcesDeceased(k) THEN [c EXCEPT !.only_deceased = TRUE] ELSE c
    IN  IF EndsWith(k, "name") \/ EndsWith(k, "place")
          THEN [c1 EXCEPT !.names_and_places = Put(@, k, Lower(v))]
        ELSE IF Contains(k, "_year")
          THEN [c1 EXCEPT !.years = Put(@, k, v)]
        ELSE IF k = "sex"
          THEN IF Lower(v) \in {"m", "f"} THEN [c1 EXCEPT !.sex = <<Upper(v)>>] ELSE c1
        ELSE IF k = "individual_id"
          THEN [c1 EXCEPT !.individual_id = <<v>>]
        ELSE c1

RECURSIVE ClassifyLoop(_, _, _, _)
ClassifyLoop(c, sd, order, i) ==
    IF i > Len(order) THEN c
    ELSE ClassifyLoop(ClassifyItem(c, order[i], sd[order[i]]), sd, order, i + 1)

\* mutant of IndexLookup: a key outside the allow-list is used as the field name
IndexLookupUnchecked(search_arg) ==
    IF search_arg \in DOMAIN ARGS_TO_INDEX THEN <<ARGS_TO_INDEX[search_arg]>>
    ELSE <<search_arg>>

\* line 66: ARGS_TO_INDEX[search_arg]; <<>> stands for the KeyError it raises
IndexLookup(search_arg) ==
    IF search_arg \in DOMAIN ARGS_TO_INDEX THEN <<ARGS_TO_INDEX[search_arg]>> ELSE <<>>

\* mutant of ResolveArg: first_name is not exempted from the modifiers
ResolveArgWithModifiers(search_arg, field_name, value) ==
    LET split_arg == Split(value, ";")
        search_str == split_arg[1]
    IN  IF Len(split_arg) > 1
          THEN IF split_arg[2] = "prefix"
                 THEN field_name :> Regex("^" \o search_str)
               ELSE IF split_arg[2] = "phonetic"
                 THEN (Split(field_name, "_lc")[1] \o "S") :> get_bhp_soundex(search_str)
               ELSE field_name :> Str(search_str)
        ELSE field_name :> Str(search_str)

\* lines 67-91: the one-clause dict qf of a name/place argument
ResolveArg(search_arg, field_name, value) ==
    LET split_arg == Split(value, ";")
        search_str == split_arg[1]
    IN  IF search_arg = "first_name" THEN field_name :> Str(search_str)
        ELSE IF Len(split_arg) > 1
          THEN IF split_arg[2] = "prefix"
                 THEN field_name :> Regex("^" \o search_str)
               ELSE IF split_arg[2] = "phonetic"
                 THEN (Split(field_name, "_lc")[1] \o "S") :> get_bhp_soundex(search_str)
               ELSE field_name :> Str(search_str)
        ELSE field_name :> Str(search_str)

\* lines 65-91: the loop; raised is set by the first KeyError
RECURSIVE ResolveNamesLoop(_, _, _)
ResolveNamesLoop(nap, order, i) ==
    IF i > Len(order) THEN [raised |-> FALSE, d |-> nap]
    ELSE LET search_arg == order[i]
             field == IndexLookup(search_arg)
         IN  IF field = <<>> THEN [raised |-> TRUE, d |-> nap]
             ELSE ResolveNamesLoop(
                    [nap EXCEPT ![search_arg] = ResolveArg(search_arg, field[1], nap[search_arg])],
                    order, i + 1)

\* lines 95-111: the range of one year argument; <<>> stands for abort(400)
ResolveYear(value) ==
    IF Contains(value, ":")
      THEN LET split_arg == Split(value, ":")
           IN  IF ParsesAsInt(split_arg[1]) /\ ParsesAsInt(split_arg[2])
                 THEN <<generate_year_range(int(split_arg[1]), int(split_arg[2]))>>
               ELSE <<>>
    ELSE IF ParsesAsInt(value) THEN <<generate_year_range(int(value), 0)>>
    ELSE <<>>

RECURSIVE ResolveYearsLoop(_, _, _)
ResolveYearsLoop(ys, order, i) ==
    IF i > Len(order) THEN [aborted |-> FALSE, d |-> ys]
    ELSE LET r == ResolveYear(ys[order[i]])
         IN  IF r = <<>> THEN [aborted |-> TRUE, d |-> ys]
             ELSE ResolveYearsLoop([ys EXCEPT ![order[i]] = r[1]], order, i + 1)

\* lines 117-126: the filter key of a year argument, <<>> when it is not filtered on
YearField(item) ==
    IF item \in {"marriage_year", "birth_year", "death_year"}
      THEN IF item = "marriage_year" THEN <<"marriage_years">> ELSE <<item>>
    ELSE <<>>

RECURSIVE AssembleYears(_, _, _, _)
AssembleYears(sq, ys, order, i) ==
    IF i > Len(order) THEN sq
    ELSE LET item == order[i]
             f == YearField(item)
         IN  AssembleYears(
               IF f = <<>> THEN sq ELSE Put(sq, f[1], Range(ys[item].min, ys[item].max)),
               ys, order, i + 1)

\* lines 136-139
PlaceSuffix(k) == IF EndsWith(k, "S") THEN "S" ELSE "_lc"

\* mutant of AddClause: place is not expanded into the disjunction
AddClauseNoExpansion(sq, param, k, v) == Put(sq, k, v)

\* lines 135-145: the filter with the clause k: v of parameter param added
AddClause(sq, param, k, v) ==
    IF param = "place"
      THEN Put(sq, "$or", Or(<<("BIRT_PLAC" \o PlaceSuffix(k)) :> v,
                               ("MARR_PLAC" \o PlaceSuffix(k)) :> v,
                               ("DEAT_PLAC" \o PlaceSuffix(k)) :> v>>))
    ELSE Put(sq, k, v)

\* the single key of a one-entry dict
OnlyKey(item) == CHOOSE k \in DOMAIN item : TRUE

RECURSIVE AssembleNames(_, _, _, _)
AssembleNames(sq, nap, order, i) ==
    IF i > Len(order) THEN sq
    ELSE LET param == order[i]
             k == OnlyKey(nap[param])
         IN  AssembleNames(AddClause(sq, param, k, nap[param][k]), nap, order, i + 1)

\* lines 147-154: [aborted, sq]
TreeClause(sq, sd, iid) ==
    IF "tree_number" \in DOMAIN sd
      THEN IF ParsesAsInt(sd["tree_number"])
             THEN LET sq1 == Put(sq, "tree_num", IntV(int(sd["tree_number"])))
                  IN  [aborted |-> FALSE,
                       sq |-> IF Truthy(iid) THEN Put(sq1, "id", Str(iid[1])) ELSE sq1]
           ELSE [aborted |-> TRUE, sq |-> sq]
    ELSE [aborted |-> FALSE, sq |-> sq]

\* lines 156-157
DeceasedClause(sq, flag) == IF flag THEN Put(sq, "deceased", BoolV(TRUE)) ELSE sq

----------------------------------------------------------------------------
(* clean_person *)

\* bhs_api.persons.LIVING_PERSON_WHITELISTED_KEYS
LIVING_PERSON_WHITELISTED_KEYS == {"name", "sex", "tree_num", "tree_version", "id"}

\* the year datetime.now() gives, and the age above which a person is held dead
CurrentYear == 2017
LIVING_AGE_THRESHOLD == 100

\* dict.get: <<>> is None
Get(d, k) == IF k \in DOMAIN d THEN <<d[k]>> ELSE None

\* bhs_api.persons.is_living_person
is_living_person(deceased, birth_year) ==
    /\ ~(deceased # None /\ deceased[1] = TRUE)
    /\ ~(birth_year # None /\ CurrentYear - birth_year[1] > LIVING_AGE_THRESHOLD)

\* lines 231-235
DelId(p) == [k \in (DOMAIN p) \ {"_id"} |-> p[k]]

\* lines 238-243: the table of legacy names
RenameTable ==
    <<<<"BIRT_PLAC", "birth_place">>, <<"DEAT_PLAC", "death_place">>,
      <<"MARR_PLAC", "marriage_place">>, <<"MARR_DATE", "marriage_date">>,
      <<"OCCU", "occupation">>, <<"NOTE", "bio">>>>

\* lines 244-247: person[api_key] = person.pop(db_key), nothing on KeyError
Rename(p, db_key, api_key) ==
    IF db_key \in DOMAIN p
      THEN [k \in ((DOMAIN p) \ {db_key}) \cup {api_key} |->
              IF k = api_key THEN p[db_key] ELSE p[k]]
    ELSE p

RECURSIVE RenameLoop(_, _)
RenameLoop(p, i) ==
    IF i > Len(RenameTable) THEN p
    ELSE RenameLoop(Rename(p, RenameTable[i][1], RenameTable[i][2]), i + 1)

\* mutant of RemoveLiving: a record without a deceased field is not taken as living
RemoveLivingNeedsFlag(p) ==
    IF "deceased" \in DOMAIN p /\ is_living_person(Get(p, "deceased"), Get(p, "birth_year"))
      THEN [k \in (DOMAIN p) \cap LIVING_PERSON_WHITELISTED_KEYS |-> p[k]]
    ELSE p

\* lines 250-253
RemoveLiving(p) ==
    IF is_living_person(Get(p, "deceased"), Get(p, "birth_year"))
      THEN [k \in (DOMAIN p) \cap LIVING_PERSON_WHITELISTED_KEYS |-> p[k]]
    ELSE p

clean_person(p) == RemoveLiving(RenameLoop(DelId(p), 1))

\* the records clean_person is applied to
MaxFields == 3

FieldPool ==
    {"_id", "BIRT_PLAC", "DEAT_PLAC", "MARR_PLAC", "MARR_DATE", "OCCU", "NOTE",
     "name", "sex", "tree_num", "id", "Slug", "birth_place", "death_year"}

FieldValue(k) ==
    CASE k = "_id" -> "5821f0"
      [] k \in {"BIRT_PLAC", "DEAT_PLAC", "MARR_PLAC"} -> "Lodz"
      [] k = "birth_place" -> "Warsaw"
      [] k = "sex" -> "F"
      [] OTHER -> "x"

Records ==
    {[k \in DOMAIN f \cup DOMAIN d \cup DOMAIN b |->
         IF k \in DOMAIN f THEN f[k] ELSE IF k \in DOMAIN d THEN d[k] ELSE b[k]] :
       f \in {[k \in S |-> FieldValue(k)] :
                S \in {T \in SUBSET FieldPool : Cardinality(T) <= MaxFields}},
       d \in {<<>>, [deceased |-> TRUE], [deceased |-> FALSE]},
       b \in {<<>>, [birth_year |-> 1890], [birth_year |-> 1990]}}

CleanDelId ==
    /\ cpc = "del_id"
    /\ person' = DelId(person)
    /\ cpc' = "rename"
    /\ UNCHANGED <<record, qvars, fvars>>

CleanRename ==
    /\ cpc = "rename"
    /\ person' = RenameLoop(person, 1)
    /\ cpc' = "living"
    /\ UNCHANGED <<record, qvars, fvars>>

CleanLiving ==
    /\ cpc = "living"
    /\ person' = RemoveLiving(person)
    /\ cpc' = "done"
    /\ UNCHANGED <<record, qvars, fvars>>

----------------------------------------------------------------------------
(* The parameter sets build_query is applied to *)

Keys ==
    {"first_name", "last_name", "sex", "birth_place", "marriage_place",
     "death_place", "place", "tree_number", "individual_id",
     "birth_year", "death_year", "marriage_year", "start",
     "maiden_name", "workplace", "graduation_year", "lang"}

Values(k) ==
    CASE k = "first_name" -> {"Yeh", "yeh;prefix", "Yeh;phonetic"}
      [] k \in {"last_name", "birth_place", "marriage_place", "death_place", "place"}
                          -> {"Lodz", "lo;Prefix", "lodz;phonetic", "lodz;like"}
      [] k = "sex"        -> {"m", "F", "x"}
      [] k \in {"birth_year", "death_year", "marriage_year"}
                          -> {"1907", "1907:2", "1907:-2", "19o7", "1907:x"}
      [] k = "tree_number" -> {"7", "7a"}
      [] k = "individual_id" -> {"I15"}
      [] k = "start"      -> {"1"}
      [] k = "maiden_name" -> {"levi"}
      [] k = "workplace"  -> {"lodz"}
      [] k = "graduation_year" -> {"1930", "soon"}
      [] OTHER            -> {"he"}

RECURSIVE DictsOn(_)
DictsOn(S) ==
    IF S = {} THEN {<<>>}
    ELSE LET k == CHOOSE x \in S : TRUE
         IN  {Put(d, k, v) : d \in DictsOn(S \ {k}), v \in Values(k)}

SearchDicts ==
    UNION {DictsOn(S) : S \in {T \in SUBSET Keys : Cardinality(T) <= MaxParams}}

----------------------------------------------------------------------------
(* build_query, step by step *)

\* lines 42-47
QueryLocals ==
    /\ names_and_places = <<>>
    /\ years = <<>>
    /\ sex = None
    /\ individual_id = None
    /\ only_deceased = FALSE
    /\ search_query = <<>>
    /\ outcome = "none"

\* lines 50-62
Classify ==
    /\ pc = "classify"
    /\ \E order \in Orders(DOMAIN search_dict) :
         \E c \in {ClassifyLoop([names_and_places |-> <<>>, years |-> <<>>, sex |-> None,
                                 individual_id |-> None, only_deceased |-> FALSE],
                                search_dict, order, 1)} :
             /\ names_and_places' = c.names_and_places
             /\ years' = c.years
             /\ sex' = c.sex
             /\ individual_id' = c.individual_id
             /\ only_deceased' = c.only_deceased
    /\ pc' = "resolve_names"
    /\ UNCHANGED <<search_dict, search_query, outcome, fvars, cvars>>

\* lines 65-91
ResolveNames ==
    /\ pc = "resolve_names"
    /\ \E order \in Orders(DOMAIN names_and_places) :
         \E r \in {ResolveNamesLoop(names_and_places, order, 1)} :
             /\ names_and_places' = r.d
             /\ pc' = IF r.raised THEN "done" ELSE "resolve_years"
             /\ outcome' = IF r.raised THEN "KeyError" ELSE outcome
    /\ UNCHANGED <<search_dict, years, sex, individual_id, only_deceased,
                   search_query, fvars, cvars>>

\* lines 94-111
ResolveYears ==
    /\ pc = "resolve_years"
    /\ \E order \in Orders(DOMAIN years) :
         \E r \in {ResolveYearsLoop(years, order, 1)} :
             /\ years' = r.d
             /\ pc' = IF r.aborted THEN "done" ELSE "assemble"
             /\ outcome' = IF r.aborted THEN "InvalidArgument" ELSE outcome
    /\ UNCHANGED <<search_dict, names_and_places, sex, individual_id, only_deceased,
                   search_query, fvars, cvars>>

\* lines 114-145
Assemble ==
    /\ pc = "assemble"
    /\ \E yorder \in Orders(DOMAIN years), norder \in Orders(DOMAIN names_and_places) :
         LET sq0 == "archived" :> Exists(FALSE)
             sq1 == AssembleYears(sq0, years, yorder, 1)
             sq2 == IF Truthy(sex) THEN Put(sq1, "sex", Str(sex[1])) ELSE sq1
         IN  search_query' = AssembleNames(sq2, names_and_places, norder, 1)
    /\ pc' = "tree_number"
    /\ UNCHANGED <<search_dict, names_and_places, years, sex, individual_id,
                   only_deceased, outcome, fvars, cvars>>

\* lines 147-154
TreeNumber ==
    /\ pc = "tree_number"
    /\ \E r \in {TreeClause(search_query, search_dict, individual_id)} :
           /\ search_query' = r.sq
           /\ pc' = IF r.aborted THEN "done" ELSE "return"
           /\ outcome' = IF r.aborted THEN "InvalidArgument" ELSE outcome
    /\ UNCHANGED <<search_dict, names_and_places, years, sex, individual_id,
                   only_deceased, fvars, cvars>>

\* lines 156-159
Return ==
    /\ pc = "return"
    /\ search_query' = DeceasedClause(search_query, only_deceased)
    /\ pc' = "done"
    /\ outcome' = "filter"
    /\ UNCHANGED <<search_dict, names_and_places, years, sex, individual_id,
                   only_deceased, fvars, cvars>>

FsearchIdle ==
    /\ args = <<>>
    /\ kwargs = <<>>
    /\ max_results = 0
    /\ max_count_results = 0
    /\ matching = 0
    /\ total = 0
    /\ results = <<>>
    /\ fpc = "idle"

CleanIdle ==
    /\ record = <<>>
    /\ person = <<>>
    /\ cpc = "idle"

\* build_query called on any parameter set
InitQuery ==
    /\ search_dict \in SearchDicts
    /\ pc = "classify"
    /\ QueryLocals
    /\ FsearchIdle
    /\ CleanIdle

NextQuery ==
    \/ Classify
    \/ ResolveNames
    \/ ResolveYears
    \/ Assemble
    \/ TreeNumber
    \/ Return

SpecQuery == InitQuery /\ [][NextQuery]_vars

----------------------------------------------------------------------------
(* build_query as one function, its loops run in some iteration order *)

AnyOrder(S) == CHOOSE o \in Orders(S) : TRUE

build_query(sd) ==
    LET c == ClassifyLoop([names_and_places |-> <<>>, years |-> <<>>, sex |-> None,
                           individual_id |-> None, only_deceased |-> FALSE],
                          sd, AnyOrder(DOMAIN sd), 1)
        rn == ResolveNamesLoop(c.names_and_places, AnyOrder(DOMAIN c.names_and_places), 1)
        ry == ResolveYearsLoop(c.years, AnyOrder(DOMAIN c.years), 1)
        sq1 == AssembleYears("archived" :> Exists(FALSE), ry.d, AnyOrder(DOMAIN ry.d), 1)
        sq2 == IF Truthy(c.sex) THEN Put(sq1, "sex", Str(c.sex[1])) ELSE sq1
        sq3 == AssembleNames(sq2, rn.d, AnyOrder(DOMAIN rn.d), 1)
        rt == TreeClause(sq3, sd, c.individual_id)
    IN  IF rn.raised THEN [outcome |-> "KeyError", filter |-> <<>>]
        ELSE IF ry.aborted \/ rt.aborted THEN [outcome |-> "InvalidArgument", filter |-> <<>>]
        ELSE [outcome |-> "filter", filter |-> DeceasedClause(rt.sq, c.only_deceased)]

----------------------------------------------------------------------------
(* Properties of build_query *)

\* build_query has returned a filter, which is search_query
Returned == pc = "done" /\ outcome = "filter"

\* the field keys a filter refers to: its own keys and those inside its disjunction
FieldKeys(sq) ==
    (DOMAIN sq) \cup
    (IF "$or" \in DOMAIN sq
       THEN UNION {DOMAIN sq["$or"].v[i] : i \in 1..Len(sq["$or"].v)}
     ELSE {})

\* the text of a name/place value before its first ";" and its modifier, "" when absent
SearchText(v) == IF Find(v, ";") = 0 THEN v ELSE SubSeq(v, 1, Find(v, ";") - 1)
Modifier(v) == IF Len(Split(v, ";")) > 1 THEN Lower(Split(v, ";")[2]) ELSE ""

\* C1: when tree_number is present and an integer, the returned filter holds only
\* the archived and tree_num clauses, an id clause exactly when individual_id was
\* supplied, and the deceased clause only when only_deceased was set: no clause
\* from a name, place, year or sex parameter.
C1_TreeNumberDiscardsOthers ==
    (/\ Returned
     /\ "tree_number" \in DOMAIN search_dict
     /\ ParsesAsInt(search_dict["tree_number"]))
    => /\ DOMAIN search_query \subseteq {"archived", "tree_num", "id", "deceased"}
       /\ "tree_num" \in DOMAIN search_query
       /\ ("id" \in DOMAIN search_query) <=> ("individual_id" \in DOMAIN search_dict)
       /\ ("deceased" \in DOMAIN search_query) => only_deceased

\* the field keys the allow-list and the fixed clauses can produce
FixedFields ==
    {"archived", "deceased", "sex", "birth_year", "death_year", "marriage_years",
     "tree_num", "id", "$or"}
AllowListFields ==
    {"name_lc.0", "name_lc.1", "sex", "BIRT_PLAC_lc", "MARR_PLAC_lc", "tree_num",
     "DEAT_PLAC_lc", "filler_lc"}
PhoneticFields == {"nameS", "BIRT_PLACS", "MARR_PLACS", "DEAT_PLACS", "fillerS"}
AllowedFieldKeys == FixedFields \cup AllowListFields \cup PhoneticFields

\* C2: every field key of a returned filter is in the fixed set given by the
\* allow-list and the fixed clauses; no parameter name or value of the user's
\* becomes a field key (beyond the fixed sex and year fields), and a filter is
\* never returned for a name/place key outside the allow-list.
C2_FieldKeysAllowListed ==
    Returned =>
      /\ FieldKeys(search_query) \subseteq AllowedFieldKeys
      /\ \A k \in DOMAIN search_dict :
           /\ k \in FieldKeys(search_query) => k \in FixedFields
           /\ search_dict[k] \notin FieldKeys(search_query)
           /\ Lower(search_dict[k]) \notin FieldKeys(search_query)
           /\ (EndsWith(k, "name") \/ EndsWith(k, "place"))
                => k \in {"first_name", "last_name", "birth_place", "marriage_place",
                          "death_place", "place"}

\* C2 witness: a filter returned for a phonetic last_name search
C2_Witness ==
    /\ Returned
    /\ "last_name" \in DOMAIN search_dict
    /\ search_dict["last_name"] = "lodz;phonetic"
    /\ "nameS" \in DOMAIN search_query

\* C4: a returned filter has the clause deceased == true exactly when some
\* parameter key ends in "place" or contains "_year".
C4_DeceasedIffPlaceOrYear ==
    Returned =>
      IF \E k \in DOMAIN search_dict : EndsWith(k, "place") \/ Contains(k, "_year")
        THEN "deceased" \in DOMAIN search_query /\ search_query["deceased"] = BoolV(TRUE)
      ELSE "deceased" \notin DOMAIN search_query

\* C4 witness: a year search inside a tree returns a filter with the deceased clause
C4_Witness ==
    /\ Returned
    /\ {"birth_year", "tree_number"} \subseteq DOMAIN search_dict
    /\ "deceased" \in DOMAIN search_query

\* C5: for a recognised year parameter "Y" or "Y:F" with integer Y and F, the
\* range clause of the returned filter is [Y-F, Y+F] (F = 0 when absent) and
\* its lower bound is not above its upper bound.
C5_YearRange ==
    Returned =>
      \A k \in {"birth_year", "death_year", "marriage_year"} \cap DOMAIN search_dict :
        LET parts == Split(search_dict[k], ":")
            Y == int(parts[1])
            F == IF Len(parts) = 2 THEN int(parts[2]) ELSE 0
            f == IF k = "marriage_year" THEN "marriage_years" ELSE k
        IN  (Len(parts) <= 2 /\ \A i \in 1..Len(parts) : ParsesAsInt(parts[i]))
            => /\ f \in DOMAIN search_query
               /\ search_query[f].type = "range"
               /\ search_query[f].v.gte = Y - F
               /\ search_query[f].v.lte = Y + F
               /\ search_query[f].v.gte <= search_query[f].v.lte

\* a year value or a tree number of the parameter set does not parse
SomeNonInteger(sd) ==
    \/ \E k \in DOMAIN sd :
         /\ Contains(k, "_year")
         /\ ~(EndsWith(k, "name") \/ EndsWith(k, "place"))
         /\ IF Contains(sd[k], ":")
              THEN ~(ParsesAsInt(Split(sd[k], ":")[1]) /\ ParsesAsInt(Split(sd[k], ":")[2]))
            ELSE ~ParsesAsInt(sd[k])
    \/ "tree_number" \in DOMAIN sd /\ ~ParsesAsInt(sd["tree_number"])

\* C6: when a year, fudge factor or tree number is not an integer build_query
\* ends in InvalidArgument, whatever the other parameters; it returns a filter
\* only when all of them are integers.
C6_NonIntegerIsInvalidArgument ==
    pc = "done" =>
      /\ SomeNonInteger(search_dict) => outcome = "InvalidArgument"
      /\ outcome = "filter" => ~SomeNonInteger(search_dict)

\* the parameter names of the data model
RecognizedKeys ==
    {"first_name", "last_name", "sex", "birth_place", "marriage_place", "death_place",
     "place", "tree_number", "individual_id", "birth_year", "death_year",
     "marriage_year", "start", "max_results", "max_count_results"}

Without(sd, u) == [k \in (DOMAIN sd) \ {u} |-> sd[k]]

\* C7: an unrecognised key changes nothing: build_query ends as it ends without
\* the key, with the same filter.
C7_UnrecognizedKeyIgnored ==
    pc = "done" =>
      \A u \in (DOMAIN search_dict) \ RecognizedKeys :
        /\ outcome = build_query(Without(search_dict, u)).outcome
        /\ outcome = "filter" => search_query = build_query(Without(search_dict, u)).filter

PlaceFieldsOf(sq) ==
    {f \in FieldKeys(sq) :
       \E b \in {"BIRT_PLAC", "MARR_PLAC", "DEAT_PLAC", "filler"} :
         Len(f) >= Len(b) /\ SubSeq(f, 1, Len(b)) = b}

PlaceBase(p) ==
    CASE p = "birth_place" -> "BIRT_PLAC"
      [] p = "marriage_place" -> "MARR_PLAC"
      [] p = "death_place" -> "DEAT_PLAC"

SuffixFor(v) == IF Modifier(v) = "phonetic" THEN "S" ELSE "_lc"

\* C9: a place search (without tree_number) adds one disjunction over exactly
\* BIRT_PLAC, MARR_PLAC and DEAT_PLAC with one value and one suffix, S for
\* phonetic and _lc otherwise, and no clause on the dummy field; the other
\* place fields of the filter are the own fields of birth_place, marriage_place
\* and death_place.
C9_PlaceDisjunction ==
    Returned =>
      LET own == {PlaceBase(p) \o SuffixFor(search_dict[p]) :
                    p \in {"birth_place", "marriage_place", "death_place"}
                          \cap DOMAIN search_dict}
      IN  IF "place" \in DOMAIN search_dict
            THEN "tree_number" \notin DOMAIN search_dict =>
                   LET s == SuffixFor(search_dict["place"])
                       d == search_query["$or"].v
                   IN  /\ "$or" \in DOMAIN search_query
                       /\ search_query["$or"].type = "or"
                       /\ Len(d) = 3
                       /\ DOMAIN d[1] = {"BIRT_PLAC" \o s}
                       /\ DOMAIN d[2] = {"MARR_PLAC" \o s}
                       /\ DOMAIN d[3] = {"DEAT_PLAC" \o s}
                       /\ d[1]["BIRT_PLAC" \o s] = d[2]["MARR_PLAC" \o s]
                       /\ d[2]["MARR_PLAC" \o s] = d[3]["DEAT_PLAC" \o s]
                       /\ DOMAIN search_query \cap {"filler_lc", "fillerS"} = {}
                       /\ PlaceFieldsOf(search_query) \cap DOMAIN search_query = own
          ELSE /\ "$or" \notin DOMAIN search_query
               /\ PlaceFieldsOf(search_query) = own

\* C9 witness: a phonetic place search next to a birth_place search
C9_Witness ==
    /\ Returned
    /\ {"place", "birth_place"} \subseteq DOMAIN search_dict
    /\ search_dict["place"] = "lodz;phonetic"
    /\ "$or" \in DOMAIN search_query
    /\ "BIRT_PLAC_lc" \in DOMAIN search_query

\* the filter keys the parameters of a returned call have written, each with
\* the parameter that wrote it
Writes ==
    {<<p, IF p = "place" THEN "$or" ELSE OnlyKey(names_and_places[p])>> :
       p \in DOMAIN names_and_places}
    \cup {<<y, YearField(y)[1]>> : y \in {z \in DOMAIN years : YearField(z) # <<>>}}
    \cup (IF Truthy(sex) THEN {<<"sex", "sex">>} ELSE {})
    \cup (IF "tree_number" \in DOMAIN search_dict THEN {<<"tree_number", "tree_num">>} ELSE {})
    \cup (IF "tree_number" \in DOMAIN search_dict /\ Truthy(individual_id)
            THEN {<<"individual_id", "id">>} ELSE {})

\* C11: a returned filter does not depend on the order in which the dicts are
\* iterated: it is the filter of the one-pass build_query, and no two distinct
\* parameters have written the same filter key.
C11_OrderIndependent ==
    Returned =>
      /\ search_query = build_query(search_dict).filter
      /\ \A w1, w2 \in Writes : w1[2] = w2[2] => w1[1] = w2[1]
      /\ {w[2] : w \in Writes} \cup {"archived"}
           \cup (IF only_deceased THEN {"deceased"} ELSE {}) = DOMAIN search_query

\* C11 witness: two name parameters, whose clauses can be assembled in two orders
C11_Witness ==
    /\ Returned
    /\ DOMAIN names_and_places = {"first_name", "last_name"}
    /\ search_dict["last_name"] = "lodz;phonetic"
    /\ {"name_lc.0", "nameS"} \subseteq DOMAIN search_query

----------------------------------------------------------------------------
(* fsearch *)

MAX_RESULTS == 30
MAX_COUNT_RESULTS == -1

\* the values an optional argument of fsearch can take
NoneArg == [t |-> "none", s |-> "", n |-> 0]
IntArg(n) == [t |-> "int", s |-> "", n |-> n]
StrArg(s) == [t |-> "str", s |-> s, n |-> 0]
\* a list whose first element is the string s
ListArg(s) == [t |-> "list", s |-> s, n |-> 0]

\* lines 183-184: x[0] if isinstance(x, (list, tuple)) else x
First(a) == IF a.t = "list" THEN StrArg(a.s) ELSE a

\* `not x`
Falsy(a) == a.t = "none" \/ (a.t = "int" /\ a.n = 0) \/ (a.t = "str" /\ a.s = "")

\* lines 185-186: int(default if not x else x); <<>> stands for the ValueError of int
IntOr(a, default) ==
    IF Falsy(First(a)) THEN <<default>>
    ELSE IF First(a).t = "int" THEN <<First(a).n>>
    ELSE IF ParsesAsInt(First(a).s) THEN <<int(First(a).s)>>
    ELSE <<>>

\* lines 162-168: <<>> stands for abort(400)
build_search_dict(kw) ==
    IF \E key \in DOMAIN kw : kw[key][1] = "" THEN <<>>
    ELSE <<[key \in DOMAIN kw |-> kw[key][1]]>>

Min(a, b) == IF a <= b THEN a ELSE b
Abs(n) == IF n < 0 THEN 0 - n ELSE n

\* pymongo cursor.skip(n) and cursor.limit(n): a limit of 0 is no limit, a
\* negative limit is the limit of its absolute value
Skip(cursor, n) == SubSeq(cursor, n + 1, Len(cursor))
Limit(cursor, n) == IF n = 0 THEN cursor ELSE SubSeq(cursor, 1, Min(Abs(n), Len(cursor)))

\* the i-th record find(search_query, projection) yields, in the collection's order
DbPerson(i) ==
    ("_id" :> i) @@ ("id" :> i) @@ ("name" :> "n") @@ ("tree_num" :> 7) @@
    ("deceased" :> (i % 2 = 0)) @@ ("BIRT_PLAC" :> "Lodz")

Cursor(n) == [i \in 1..n |-> DbPerson(i)]

\* lines 212-215
Count(n, cap) == IF cap = -1 THEN n ELSE Len(Limit([i \in 1..n |-> i], cap))

\* line 219 raises ValueError: int() fails, or skip() is given a negative number
StartRaises(sd) ==
    "start" \in DOMAIN sd /\ (~ParsesAsInt(sd["start"]) \/ int(sd["start"]) < 0)

\* mutant of FetchPage: the limit is applied before the skip
FetchPageLimitFirst(cursor, sd, limit) ==
    LET page == IF "start" \in DOMAIN sd
                  THEN Skip(Limit(cursor, limit), int(sd["start"]))
                ELSE Limit(cursor, limit)
    IN  [j \in 1..Len(page) |-> clean_person(page[j])]

\* lines 217-220
FetchPage(cursor, sd, limit) ==
    LET skipped == IF "start" \in DOMAIN sd THEN Skip(cursor, int(sd["start"])) ELSE cursor
        page == Limit(skipped, limit)
    IN  [j \in 1..Len(page) |-> clean_person(page[j])]

\* lines 183-186
FsNormalize ==
    /\ fpc = "normalize"
    /\ \E mr \in {IntOr(args.max_results, MAX_RESULTS)},
          mc \in {IntOr(args.max_count_results, MAX_COUNT_RESULTS)} :
         IF mr = <<>> \/ mc = <<>>
           THEN /\ fpc' = "ValueError"
                /\ UNCHANGED <<max_results, max_count_results>>
         ELSE /\ max_results' = mr[1]
              /\ max_count_results' = mc[1]
              /\ fpc' = "build_search_dict"
    /\ UNCHANGED <<args, kwargs, matching, total, results, qvars, cvars>>

\* lines 191-193: build_search_dict, then the call of build_query
FsBuildSearchDict ==
    /\ fpc = "build_search_dict"
    /\ \E r \in {build_search_dict(kwargs)} :
         IF r = <<>>
           THEN /\ fpc' = "InvalidArgument"
                /\ UNCHANGED <<search_dict, pc>>
         ELSE /\ search_dict' = r[1]
              /\ pc' = "classify"
              /\ fpc' = "build_query"
    /\ UNCHANGED <<names_and_places, years, sex, individual_id, only_deceased,
                   search_query, outcome, args, kwargs, max_results,
                   max_count_results, matching, total, results, cvars>>

\* lines 193-215: build_query has ended; its error ends fsearch, its filter is counted
FsCount ==
    /\ fpc = "build_query"
    /\ pc = "done"
    /\ IF outcome = "filter"
         THEN /\ total' = Count(matching, max_count_results)
              /\ fpc' = "fetch"
       ELSE /\ fpc' = outcome
            /\ UNCHANGED total
    /\ UNCHANGED <<args, kwargs, max_results, max_count_results, matching, results,
                   qvars, cvars>>

\* lines 217-222
FsFetch ==
    /\ fpc = "fetch"
    /\ IF StartRaises(search_dict)
         THEN /\ fpc' = "ValueError"
              /\ UNCHANGED results
       ELSE /\ results' = FetchPage(Cursor(matching), search_dict, max_results)
            /\ fpc' = "returned"
    /\ UNCHANGED <<args, kwargs, max_results, max_count_results, matching, total,
                   qvars, cvars>>

\* bounds and inputs of fsearch
MaxMatching == 31

MaxResultsArgs ==
    {NoneArg, IntArg(0), IntArg(2), StrArg("0"), StrArg("3"), StrArg("-2"),
     ListArg("16"), StrArg("many")}
MaxCountArgs == {NoneArg, StrArg("2"), ListArg("-1")}

FsKwargs ==
    {<<>>,
     [start |-> <<"0">>],
     [start |-> <<"2">>],
     [start |-> <<"-1">>],
     [start |-> <<"x">>],
     [first_name |-> <<"Yeh", "Dan">>],
     [sex |-> <<"">>],
     [birth_year |-> <<"19o7">>],
     [maiden_name |-> <<"levi">>],
     [last_name |-> <<"lodz;phonetic">>, start |-> <<"1">>]}

----------------------------------------------------------------------------
(* clean_person applied to any record *)

QueryIdle ==
    /\ search_dict = <<>>
    /\ pc = "idle"
    /\ QueryLocals

InitClean ==
    /\ record \in Records
    /\ person = record
    /\ cpc = "del_id"
    /\ QueryIdle
    /\ FsearchIdle

NextClean ==
    \/ CleanDelId
    \/ CleanRename
    \/ CleanLiving

SpecClean == InitClean /\ [][NextClean]_vars

\* C3: when the living-person predicate holds of the record's deceased and
\* birth_year values, every key of the record clean_person returns is
\* whitelisted, legacy fields included.
C3_LivingOnlyWhitelisted ==
    (/\ cpc = "done"
     /\ is_living_person(Get(record, "deceased"), Get(record, "birth_year")))
    => DOMAIN person \subseteq LIVING_PERSON_WHITELISTED_KEYS

\* C3 witness: a living person's record with a legacy field and no deceased flag
C3_Witness ==
    /\ cpc = "done"
    /\ "NOTE" \in DOMAIN record
    /\ "name" \in DOMAIN record
    /\ "deceased" \notin DOMAIN record
    /\ "birth_year" \notin DOMAIN record
    /\ DOMAIN person = {"name"}

----------------------------------------------------------------------------
(* fsearch called on any arguments and collection *)

Init ==
    /\ args \in [max_results : MaxResultsArgs, max_count_results : MaxCountArgs]
    /\ kwargs \in FsKwargs
    /\ matching \in 0..MaxMatching
    /\ max_results = 0
    /\ max_count_results = 0
    /\ total = 0
    /\ results = <<>>
    /\ fpc = "normalize"
    /\ QueryIdle
    /\ CleanIdle

Next ==
    \/ FsNormalize
    \/ FsBuildSearchDict
    \/ Classify
    \/ ResolveNames
    \/ ResolveYears
    \/ Assemble
    \/ TreeNumber
    \/ Return
    \/ FsCount
    \/ FsFetch

Spec == Init /\ [][Next]_vars

\* the start offset of the call, 0 when absent
StartOf(sd) == IF "start" \in DOMAIN sd THEN int(sd["start"]) ELSE 0

\* the max_results the caller supplied, as a number
Supplied(a) == IF First(a).t = "int" THEN First(a).n ELSE int(First(a).s)

\* the page is the matching records from position start on, at most limit of them
PageIs(limit) ==
    /\ Len(results) <= limit
    /\ Len(results) = Min(limit, IF matching > StartOf(search_dict)
                                   THEN matching - StartOf(search_dict) ELSE 0)
    /\ \A j \in 1..Len(results) :
         results[j] = clean_person(DbPerson(StartOf(search_dict) + j))

====
